---- MODULE Spec2Model ----
(***************************************************************************)
(* Link Tracker Pro (src/server.js).  The file holds two drafts of the     *)
(* same service:                                                           *)
(*   - the multi-tenant draft  (lines 1-846):   links and clicks carry a   *)
(*     user_id, links are UNIQUE(user_id, slug);                           *)
(*   - the single-tenant draft (lines 847-1223): links.slug is UNIQUE and  *)
(*     creation is INSERT OR REPLACE.                                      *)
(* The variable `variant` says which draft is running.  Every handler is   *)
(* synchronous (better-sqlite3), so a request is one atomic step.          *)
(*                                                                         *)
(* Text is a sequence of one-character strings.  Numbers are exact         *)
(* decimals [m, e] standing for m * 10^(-e); IEEE rounding of the JS/SQL   *)
(* doubles is not modelled.                                                *)
(***************************************************************************)
EXTENDS Integers, Sequences, FiniteSets, TLC

VARIABLES variant, links, clicks, events, nextLinkId, hits, resp, pin, pout

vars == <<variant, links, clicks, events, nextLinkId, hits, resp, pin, pout>>

----
(* Bounds of the model *)

NumUsers == 2
MaxLinks == 2
MaxClicks == 2
MaxInputLen == 5
MaxMoneyLen == 8

----
(* Characters *)

Digits == <<"0", "1", "2", "3", "4", "5", "6", "7", "8", "9">>

LowerAlpha == <<"a", "b", "c", "d", "e", "f", "g", "h", "i", "j", "k", "l", "m",
                "n", "o", "p", "q", "r", "s", "t", "u", "v", "w", "x", "y", "z">>

UpperAlpha == <<"A", "B", "C", "D", "E", "F", "G", "H", "I", "J", "K", "L", "M",
                "N", "O", "P", "Q", "R", "S", "T", "U", "V", "W", "X", "Y", "Z">>

Range(s) == { s[i] : i \in 1..Len(s) }

IsDigit(c) == c \in Range(Digits)

DigitVal(c) == (CHOOSE i \in 1..10 : Digits[i] = c) - 1

IsSpace(c) == c \in {" ", "\t", "\n"}

toLowerChar(c) ==
  IF c \in Range(UpperAlpha)
  THEN LowerAlpha[CHOOSE i \in 1..26 : UpperAlpha[i] = c]
  ELSE c

toUpperChar(c) ==
  IF c \in Range(LowerAlpha)
  THEN UpperAlpha[CHOOSE i \in 1..26 : LowerAlpha[i] = c]
  ELSE c

toLowerCase(s) == [i \in 1..Len(s) |-> toLowerChar(s[i])]

toUpperCase(s) == [i \in 1..Len(s) |-> toUpperChar(s[i])]

RECURSIVE TrimLeft(_)
TrimLeft(s) == IF s # <<>> /\ IsSpace(Head(s)) THEN TrimLeft(Tail(s)) ELSE s

RECURSIVE TrimRight(_)
TrimRight(s) ==
  IF s # <<>> /\ IsSpace(s[Len(s)]) THEN TrimRight(SubSeq(s, 1, Len(s) - 1)) ELSE s

trim(s) == TrimRight(TrimLeft(s))

startsWith(s, p) == Len(s) >= Len(p) /\ SubSeq(s, 1, Len(p)) = p

includes(s, c) == c \in Range(s)

(* the length of the longest prefix of s made of digits *)
RECURSIVE DigitRun(_)
DigitRun(s) == IF s # <<>> /\ IsDigit(Head(s)) THEN 1 + DigitRun(Tail(s)) ELSE 0

Drop(s, n) == SubSeq(s, n + 1, Len(s))

Take(s, n) == SubSeq(s, 1, n)

----
(* Numbers: exact decimals, NaN and SQL NULL *)

RECURSIVE Pow10(_)
Pow10(n) == IF n = 0 THEN 1 ELSE 10 * Pow10(n - 1)

RECURSIVE Norm(_, _)
Norm(m, e) ==
  IF e > 0 /\ m % 10 = 0 THEN Norm(m \div 10, e - 1)
  ELSE [k |-> "num", m |-> m, e |-> e]

Dec(m, e) == Norm(m, e)

NaN == [k |-> "nan", m |-> 0, e |-> 0]

NULL == [k |-> "null", m |-> 0, e |-> 0]

IsNum(x) == x.k = "num"

(* a < b for decimals *)
DecLT(a, b) == a.m * Pow10(b.e) < b.m * Pow10(a.e)

DecLE(a, b) == a.m * Pow10(b.e) <= b.m * Pow10(a.e)

DecMul(a, b) == Dec(a.m * b.m, a.e + b.e)

DecDiv100(a) == Dec(a.m, a.e + 2)

DecInt(n) == Dec(n, 0)

(* the value of a run of decimal digits *)
RECURSIVE DigitsValue(_)
DigitsValue(s) ==
  IF s = <<>> THEN 0 ELSE 10 * DigitsValue(Take(s, Len(s) - 1)) + DigitVal(s[Len(s)])

----
(* JavaScript number reading *)

SignOf(s) == IF s # <<>> /\ Head(s) = "-" THEN -1 ELSE 1

Unsigned(s) == IF s # <<>> /\ Head(s) \in {"-", "+"} THEN Tail(s) ELSE s

(* parseFloat: skips leading blanks, reads the longest prefix  *)
(* [sign] digits [. digits] and ignores whatever follows it    *)
parseFloat(s) ==
  LET t    == TrimLeft(s)
      u    == Unsigned(t)
      i    == DigitRun(u)
      rest == Drop(u, i)
      f    == IF rest # <<>> /\ Head(rest) = "." THEN DigitRun(Tail(rest)) ELSE 0
      frac == IF f = 0 THEN <<>> ELSE SubSeq(rest, 2, f + 1)
  IN  IF i + f = 0 THEN NaN
      ELSE Dec(SignOf(t) * DigitsValue(Take(u, i) \o frac), f)

(* Number(string): the whole trimmed string has to be a numeral; "" is 0 *)
Number(s) ==
  LET t    == trim(s)
      u    == Unsigned(t)
      i    == DigitRun(u)
      rest == Drop(u, i)
      f    == IF rest # <<>> /\ Head(rest) = "." THEN DigitRun(Tail(rest)) ELSE 0
      used == i + (IF rest # <<>> /\ Head(rest) = "." THEN 1 + f ELSE 0)
  IN  IF t = <<>> THEN DecInt(0)
      ELSE IF used = Len(u) /\ i + f > 0 THEN parseFloat(t)
      ELSE NaN

(* s.replace(c, '') with a string pattern: the first occurrence only *)
RECURSIVE RemoveFirst(_, _)
RemoveFirst(s, c) ==
  IF s = <<>> THEN <<>>
  ELSE IF Head(s) = c THEN Tail(s)
  ELSE <<Head(s)>> \o RemoveFirst(Tail(s), c)

IsDigitOrDot(c) == IsDigit(c) \/ c = "."

(* replace(/[^0-9.]/g, '') *)
cleaned(s) == SelectSeq(s, IsDigitOrDot)

(* the decimal digits of a natural number *)
RECURSIVE DigitsOf(_)
DigitsOf(n) ==
  IF n < 10 THEN <<Digits[n + 1]>> ELSE DigitsOf(n \div 10) \o <<Digits[(n % 10) + 1]>>

RECURSIVE StripTrailingZeros(_)
StripTrailingZeros(s) ==
  IF Len(s) > 1 /\ s[Len(s)] = "0" THEN StripTrailingZeros(Take(s, Len(s) - 1)) ELSE s

Zeros(n) == [i \in 1..n |-> "0"]

(* Number.prototype.toString(): with s the k significant digits and n the *)
(* position of the decimal point, plain digits when k <= n <= 21, a point  *)
(* inside the digits when 0 < n < k, "0.00ddd" when -6 < n <= 0, and the   *)
(* exponent form d.ddde+x / d.ddde-x otherwise                             *)
toString(x) ==
  IF ~IsNum(x) THEN <<"N", "a", "N">>
  ELSE IF x.m = 0 THEN <<"0">>
  ELSE LET all  == DigitsOf(IF x.m < 0 THEN -x.m ELSE x.m)
           s    == StripTrailingZeros(all)
           k    == Len(s)
           n    == Len(all) - x.e
           sign == IF x.m < 0 THEN <<"-">> ELSE <<>>
           ex   == n - 1
           mant == IF k = 1 THEN s ELSE <<s[1], ".">> \o Drop(s, 1)
       IN  sign \o
           (IF k <= n /\ n <= 21 THEN s \o Zeros(n - k)
            ELSE IF 0 < n /\ n <= 21 THEN Take(s, n) \o <<".">> \o Drop(s, n)
            ELSE IF -6 < n /\ n <= 0 THEN <<"0", ".">> \o Zeros(-n) \o s
            ELSE mant \o <<"e">> \o (IF ex < 0 THEN <<"-">> \o DigitsOf(-ex)
                                                ELSE <<"+">> \o DigitsOf(ex)))

----
(* Numeric normalizers *)

DEFAULT_CR == Dec(8, 3)

DEFAULT_AOV == Dec(45, 0)

(* the second threshold mistyped as 0.02 *)
parseConversionRate_Threshold(input) ==
  IF input = <<>> THEN DEFAULT_CR
  ELSE LET num == parseFloat(cleaned(input))
       IN  IF ~IsNum(num) \/ num.m = 0 THEN DEFAULT_CR
           ELSE IF DecLT(DecInt(1), num) THEN DecDiv100(num)
           ELSE IF DecLT(Dec(2, 2), num) THEN DecDiv100(num)
           ELSE num

(* multi-tenant draft *)
parseConversionRate(input) ==
  IF input = <<>> THEN DEFAULT_CR
  ELSE LET num == parseFloat(cleaned(input))
       IN  IF ~IsNum(num) \/ num.m = 0 THEN DEFAULT_CR
           ELSE IF DecLT(DecInt(1), num) THEN DecDiv100(num)
           ELSE IF DecLT(Dec(2, 1), num) THEN DecDiv100(num)
           ELSE num

parseMoney(input) ==
  IF input = <<>> THEN DEFAULT_AOV
  ELSE LET num == parseFloat(cleaned(input))
       IN  IF IsNum(num) /\ num.m > 0 THEN num ELSE DEFAULT_AOV

(* single-tenant draft *)
parseCR(v) ==
  IF v = <<>> THEN NULL
  ELSE LET s == RemoveFirst(toLowerCase(trim(v)), "%")
           n == Number(s)
       IN  IF includes(s, ".") /\ IsNum(n) THEN n
           ELSE IF ~IsNum(n) THEN NULL
           ELSE IF DecLE(DecInt(1), n) THEN DecDiv100(n)
           ELSE n

parseAOV(v) ==
  IF v = <<>> THEN NULL
  ELSE LET t == trim(v)
           s == IF t # <<>> /\ Head(t) = "$" THEN Tail(t) ELSE t
           n == Number(s)
       IN  IF IsNum(n) THEN n ELSE NULL

----
(* Identifier generator and slug derivation *)

(* the characters the model lets customAlphabet draw from: two for a click *)
(* id, one for a slug, so that a few links exhaust the slug retries        *)
ClickIdChars == {"a", "b"}

SlugIdChars == {"a"}

NanoLenMulti == 10

NanoLenSingle == 12

(* nanoid(): any string of the configured length; the model draws the *)
(* constant strings over the given characters, so that ids can collide *)
nanoid(n, chars) == { [i \in 1..n |-> c] : c \in chars }

IsSlugAlnum(c) == c \in Range(LowerAlpha) \/ IsDigit(c)

(* replace(/[^a-z0-9]+/g, '-') *)
RECURSIVE HyphenateRuns(_, _)
HyphenateRuns(s, inRun) ==
  IF s = <<>> THEN <<>>
  ELSE IF IsSlugAlnum(Head(s)) THEN <<Head(s)>> \o HyphenateRuns(Tail(s), FALSE)
  ELSE IF inRun THEN HyphenateRuns(Tail(s), TRUE)
  ELSE <<"-">> \o HyphenateRuns(Tail(s), TRUE)

RECURSIVE StripLeadingHyphens(_)
StripLeadingHyphens(s) ==
  IF s # <<>> /\ Head(s) = "-" THEN StripLeadingHyphens(Tail(s)) ELSE s

RECURSIVE StripTrailingHyphens(_)
StripTrailingHyphens(s) ==
  IF s # <<>> /\ s[Len(s)] = "-" THEN StripTrailingHyphens(Take(s, Len(s) - 1)) ELSE s

slugify(text) ==
  StripTrailingHyphens(StripLeadingHyphens(HyphenateRuns(toLowerCase(text), FALSE)))

Str_link == <<"l", "i", "n", "k">>

Str_self == <<"s", "e", "l", "f">>

Str_https == <<"h", "t", "t", "p", "s", ":", "/", "/">>

Str_http == <<"h", "t", "t", "p", ":", "/", "/">>

(* the candidates for baseSlug: one, unless the random fallback is taken *)
baseSlug(partner, campaign) ==
  IF trim(partner) # <<>>
  THEN LET partnerSlug  == slugify(partner)
           campaignSlug == IF campaign # <<>> THEN slugify(campaign) ELSE <<>>
       IN  { IF campaignSlug # <<>> THEN partnerSlug \o <<"-">> \o campaignSlug
             ELSE partnerSlug }
  ELSE IF campaign # <<>> THEN { slugify(campaign) }
  ELSE { Str_link \o <<"-">> \o id : id \in nanoid(NanoLenMulti, SlugIdChars) }

(* replace(/\s+/g, '-') *)
RECURSIVE HyphenateSpaces(_, _)
HyphenateSpaces(s, inRun) ==
  IF s = <<>> THEN <<>>
  ELSE IF ~IsSpace(Head(s)) THEN <<Head(s)>> \o HyphenateSpaces(Tail(s), FALSE)
  ELSE IF inRun THEN HyphenateSpaces(Tail(s), TRUE)
  ELSE <<"-">> \o HyphenateSpaces(Tail(s), TRUE)

IsSafeSlugChar(c) == IsSlugAlnum(c) \/ c = "-"

SafeSlugLen == 40

(* single-tenant draft: slug and safeSlug *)
safeSlug(partner, campaign) ==
  LET p    == HyphenateSpaces(toLowerCase(IF partner # <<>> THEN partner ELSE Str_self), FALSE)
      c    == HyphenateSpaces(toLowerCase(IF campaign # <<>> THEN campaign ELSE Str_link), FALSE)
      slug == p \o <<"-">> \o c
      safe == SelectSeq(slug, IsSafeSlugChar)
  IN  Take(safe, IF Len(safe) < SafeSlugLen THEN Len(safe) ELSE SafeSlugLen)

----
(* Target URLs *)

(* /^https?:\/\//i *)
HasHttpScheme(t) ==
  \/ startsWith(toLowerCase(t), Str_https)
  \/ startsWith(toLowerCase(t), Str_http)

(* multi-tenant draft: targetUrl *)
targetUrl(target) ==
  LET t == trim(target)
  IN  IF t # <<>> /\ ~HasHttpScheme(t) THEN Str_https \o t ELSE t

(* single-tenant draft: cleanTarget *)
cleanTarget(target) ==
  LET t == trim(target)
  IN  IF startsWith(t, <<"h", "t", "t", "p">>) THEN t ELSE Str_https \o t

IsSchemeChar(c) ==
  toLowerChar(c) \in Range(LowerAlpha) \/ IsDigit(c) \/ c \in {"+", "-", "."}

RECURSIVE SchemeRun(_)
SchemeRun(s) == IF s # <<>> /\ IsSchemeChar(Head(s)) THEN 1 + SchemeRun(Tail(s)) ELSE 0

RECURSIVE SkipSlashes(_)
SkipSlashes(s) == IF s # <<>> /\ Head(s) \in {"/", "\\"} THEN SkipSlashes(Tail(s)) ELSE s

RECURSIVE HostRun(_)
HostRun(s) ==
  IF s # <<>> /\ Head(s) \notin {"/", "\\", "?", "#"} THEN 1 + HostRun(Tail(s)) ELSE 0

ForbiddenHostChars == {" ", "<", ">", "^", "|", "%", "[", "]"}

(* new URL(t) does not throw.  A URL without a base needs a scheme; an   *)
(* http(s) URL needs a non-empty host free of forbidden code points.     *)
(* Ports, credentials and the other special schemes are not modelled.    *)
IsValidURL(t) ==
  LET n      == SchemeRun(t)
      scheme == toLowerCase(Take(t, n))
      rest   == Drop(t, n + 1)
      host   == Take(SkipSlashes(rest), HostRun(SkipSlashes(rest)))
  IN  /\ n > 0
      /\ toLowerChar(t[1]) \in Range(LowerAlpha)
      /\ Len(t) > n
      /\ t[n + 1] = ":"
      /\ \/ scheme \notin {<<"h", "t", "t", "p">>, <<"h", "t", "t", "p", "s">>}
         \/ host # <<>> /\ Range(host) \cap ForbiddenHostChars = {}

----
(* Requests *)

Users == 1..NumUsers

(* getUserFromSession found no session *)
NoUser == 0

(* the single-tenant draft has no accounts: one scope *)
Scope0 == 0

Body(target, partner, campaign, cr, aov) ==
  [target |-> target, partner |-> partner, campaign |-> campaign, cr |-> cr, aov |-> aov]

Str_acme == <<"a", "c", "m", "e">>

Str_fall == <<"f", "a", "l", "l">>

(* the request bodies POST /admin/links is tried with *)
Bodies ==
  { Body(<<"a", ".", "i", "o">>, Str_acme, Str_fall, <<>>, <<>>),
    Body(<<>>, Str_acme, Str_fall, <<"1">>, <<"$", "5", "0">>),
    Body(<<" ">>, <<>>, <<>>, <<"5", "0", "0">>, <<>>),
    Body(<<"h", "t", "t", "p", ":", "/", "/", "a", " ", "b">>, <<>>, <<"F", "a", "l", "l">>,
         <<"0", ".", "8">>, <<"-", "4">>),
    Body(<<"a", ".", "i", "o">>, <<"&">>, <<>>, <<>>, <<>>) }

(* the slugs GET /r/:slug is tried with: every stored one and an unknown one; *)
(* the route parameter is a path segment, which is never empty               *)
Str_unknown == <<"n", "o", "n", "e">>

RequestSlugs == ({ l.slug : l \in links } \cup { Str_unknown }) \ { <<>> }

----
(* State *)

NoLocation == [target |-> <<>>, params |-> <<>>]

Response(kind, status, user, slug, link, click, location, rows, total, req) ==
  [kind |-> kind, status |-> status, user |-> user, slug |-> slug, link |-> link,
   click |-> click, location |-> location, rows |-> rows, total |-> total, req |-> req]

NoBody == Body(<<>>, <<>>, <<>>, <<>>, <<>>)

NoResponse == Response("none", 0, NoUser, <<>>, 0, <<>>, NoLocation, {}, 0, NoBody)

NoParse ==
  [cr |-> NULL, aov |-> NULL, crSingle |-> NULL, aovSingle |-> NULL,
   aovText |-> <<>>, aovAgain |-> NULL, done |-> FALSE]

Init ==
  /\ variant \in {"multi", "single"}
  /\ links = {}
  /\ clicks = <<>>
  /\ events = <<>>
  /\ nextLinkId = 1
  /\ hits = <<>>
  /\ resp = NoResponse
  /\ pin = <<>>
  /\ pout = NoParse

----
(* Link store *)

Link(id, user, slug, target, partner, campaign, cr, aov) ==
  [id |-> id, user_id |-> user, slug |-> slug, target |-> target,
   partner |-> partner, campaign |-> campaign, cr |-> cr, aov |-> aov]

(* SELECT id FROM links WHERE user_id = ? AND slug = ? *)
SlugExists(user, slug) == \E l \in links : l.user_id = user /\ l.slug = slug

(* UNIQUE(user_id, slug): a plain INSERT of this key throws *)
UniqueViolation(user, slug) == \E l \in links : l.user_id = user /\ l.slug = slug

(* a plain INSERT into a table without the UNIQUE constraint *)
ReplacedRows_NoConstraint(slug) == {}

(* INSERT OR REPLACE under slug TEXT UNIQUE: the rows the new row deletes *)
ReplacedRows(slug) == { l \in links : l.slug = slug }

MaxAttempts == 10

SuffixLen == 4

(* the uniqueness loop of the multi-tenant draft: the values finalSlug can *)
(* have when the loop is left, for every outcome of the random draws       *)
RECURSIVE ensureUnique(_, _, _, _)
ensureUnique(user, base, final, attempt) ==
  IF ~SlugExists(user, final) THEN { final }
  ELSE UNION { IF attempt + 1 > MaxAttempts THEN { base \o <<"-">> \o Take(id, SuffixLen) }
               ELSE ensureUnique(user, base, base \o <<"-">> \o Take(id, SuffixLen), attempt + 1)
               : id \in nanoid(NanoLenMulti, SlugIdChars) }

Event(user, type, slug) == [user_id |-> user, type |-> type, slug |-> slug]

(* hits[id]: the GET /r/<slug> requests issued for the slug of link id since *)
(* the link was stored (history, not program state)                          *)
HitsAfterInsert(id, removed) ==
  [i \in (DOMAIN hits \ removed) \cup {id} |-> IF i = id THEN 0 ELSE hits[i]]

LoginLocation == [target |-> <<"/", "l", "o", "g", "i", "n">>, params |-> <<>>]

HomeLocation == [target |-> <<"/">>, params |-> <<>>]

(* POST /admin/links, multi-tenant draft *)
CreateLinkMulti(user, body) ==
  /\ variant = "multi"
  /\ IF user = NoUser
     THEN /\ resp' = Response("create", 302, NoUser, <<>>, 0, <<>>, LoginLocation, {}, 0, body)
          /\ UNCHANGED <<links, events, nextLinkId, hits>>
     ELSE \E base \in baseSlug(body.partner, body.campaign) :
          \E finalSlug \in ensureUnique(user, base, base, 0) :
            IF UniqueViolation(user, finalSlug)
            THEN /\ resp' = Response("create", 400, user, finalSlug, 0, <<>>, NoLocation, {}, 0, body)
                 /\ UNCHANGED <<links, events, nextLinkId, hits>>
            ELSE /\ nextLinkId <= MaxLinks
                 /\ links' = links \cup
                      { Link(nextLinkId, user, finalSlug, targetUrl(body.target),
                             body.partner, body.campaign,
                             parseConversionRate(body.cr), parseMoney(body.aov)) }
                 /\ nextLinkId' = nextLinkId + 1
                 /\ hits' = HitsAfterInsert(nextLinkId, {})
                 /\ events' = Append(events, Event(user, "create_link", finalSlug))
                 /\ resp' = Response("create", 302, user, finalSlug, nextLinkId, <<>>,
                                     HomeLocation, {}, 0, body)
  /\ UNCHANGED <<variant, clicks, pin, pout>>

(* POST /admin/links, single-tenant draft: INSERT OR REPLACE *)
CreateLinkSingle(body) ==
  /\ variant = "single"
  /\ IF body.target = <<>>
     THEN /\ resp' = Response("create", 400, NoUser, <<>>, 0, <<>>, NoLocation, {}, 0, body)
          /\ UNCHANGED <<links, nextLinkId, hits>>
     ELSE LET slug     == safeSlug(body.partner, body.campaign)
              replaced == ReplacedRows(slug)
          IN  /\ nextLinkId <= MaxLinks
              /\ links' = (links \ replaced) \cup
                   { Link(nextLinkId, Scope0, slug, cleanTarget(body.target),
                          body.partner, body.campaign, parseCR(body.cr), parseAOV(body.aov)) }
              /\ nextLinkId' = nextLinkId + 1
              /\ hits' = HitsAfterInsert(nextLinkId, { l.id : l \in replaced })
              /\ resp' = Response("create", 302, NoUser, slug, nextLinkId, <<>>,
                                  HomeLocation, {}, 0, body)
  /\ UNCHANGED <<variant, clicks, events, pin, pout>>

----
(* Redirect and click recorder *)

(* the click attributed to the visitor's account (none) instead of the owner *)
Click_VisitorOwner(user, slug, clickId) ==
  [user_id |-> NoUser, slug |-> slug, click_id |-> clickId]

Click(user, slug, clickId) == [user_id |-> user, slug |-> slug, click_id |-> clickId]

Utm(source, medium, campaign) == [source |-> source, medium |-> medium, campaign |-> campaign]

NoUtm == Utm(<<>>, <<>>, <<>>)

(* the query strings GET /r/:slug is tried with *)
UtmInputs == { NoUtm, Utm(<<"n", "l">>, <<>>, <<"x">>) }

Param(name, value) == <<name, value>>

(* url.searchParams.set(...) calls of the multi-tenant draft, in order *)
RedirectParamsMulti(row, clickId) ==
  (IF row.partner # <<>> THEN << Param("partner", toUpperCase(row.partner)) >> ELSE <<>>)
  \o << Param("sb_click", clickId) >>

(* url.searchParams.set(...) calls of the single-tenant draft, in order *)
RedirectParamsSingle(clickId, utm) ==
  << Param("sb_click", clickId) >>
  \o (IF utm.source # <<>> THEN << Param("utm_source", utm.source) >> ELSE <<>>)
  \o (IF utm.medium # <<>> THEN << Param("utm_medium", utm.medium) >> ELSE <<>>)
  \o (IF utm.campaign # <<>> THEN << Param("utm_campaign", utm.campaign) >> ELSE <<>>)

HitsAfterRequest(slug) ==
  [i \in DOMAIN hits |->
     IF \E l \in links : l.id = i /\ l.slug = slug THEN hits[i] + 1 ELSE hits[i]]

(* what follows the click insert: new URL(row.target) throws (Express answers *)
(* 500) or the redirect is sent                                              *)
RedirectResponse(row, slug, clickId, params, utm) ==
  IF IsValidURL(row.target)
  THEN Response("redirect", 302, NoUser, slug, row.id, clickId,
                [target |-> row.target, params |-> params], {}, 0, utm)
  ELSE Response("redirect", 500, NoUser, slug, row.id, clickId, NoLocation, {}, 0, utm)

NotFoundResponse(slug) ==
  Response("redirect", 404, NoUser, slug, 0, <<>>, NoLocation, {}, 0, NoBody)

(* a REPLACE INTO keyed by the slug: the earlier clicks of the slug are lost *)
InsertClick_Replace(click) ==
  Append(SelectSeq(clicks, LAMBDA c : c.slug # click.slug), click)

(* INSERT INTO clicks *)
InsertClick(click) == Append(clicks, click)

(* a 404 that logs the miss as a click *)
NotFound_LogsMiss(slug) ==
  /\ resp' = NotFoundResponse(slug)
  /\ clicks' = Append(clicks, Click(NoUser, slug, <<>>))
  /\ UNCHANGED hits

(* the 404 branch leaves the tables alone *)
NotFound(slug) ==
  /\ resp' = NotFoundResponse(slug)
  /\ UNCHANGED <<clicks, hits>>

(* GET /r/:slug, multi-tenant draft.  SELECT ... WHERE slug = ? LIMIT 1 has *)
(* no ORDER BY: any link with the slug, of any user, may be the row.  The   *)
(* handler does not read the query string utm of the request.              *)
RedirectMulti(slug, utm) ==
  /\ variant = "multi"
  /\ LET rows == { l \in links : l.slug = slug }
     IN  IF rows = {} THEN NotFound(slug)
         ELSE \E row \in rows : \E clickId \in nanoid(NanoLenMulti, ClickIdChars) :
                /\ Len(clicks) < MaxClicks
                /\ clicks' = InsertClick(Click(row.user_id, row.slug, clickId))
                /\ hits' = HitsAfterRequest(slug)
                /\ resp' = RedirectResponse(row, slug, clickId,
                                            RedirectParamsMulti(row, clickId), utm)
  /\ UNCHANGED <<variant, links, events, nextLinkId, pin, pout>>

(* GET /r/:slug, single-tenant draft *)
RedirectSingle(slug, utm) ==
  /\ variant = "single"
  /\ LET rows == { l \in links : l.slug = slug }
     IN  IF rows = {} THEN NotFound(slug)
         ELSE \E row \in rows : \E clickId \in nanoid(NanoLenSingle, ClickIdChars) :
                /\ Len(clicks) < MaxClicks
                /\ clicks' = InsertClick(Click(Scope0, row.slug, clickId))
                /\ hits' = HitsAfterRequest(slug)
                /\ resp' = RedirectResponse(row, slug, clickId,
                                            RedirectParamsSingle(clickId, utm), utm)
  /\ UNCHANGED <<variant, links, events, nextLinkId, pin, pout>>

----
(* Attribution aggregator *)

Abs(n) == IF n < 0 THEN -n ELSE n

(* SQL ROUND(x, 2): to two decimals, halves away from zero *)
Round2(x) ==
  IF x.e <= 2 THEN x
  ELSE LET p == Pow10(x.e - 2)
           q == (Abs(x.m) + p \div 2) \div p
       IN  Dec(IF x.m < 0 THEN -q ELSE q, 2)

COALESCE(x, dflt) == IF x = NULL THEN dflt ELSE x

(* FROM links l LEFT JOIN clicks c ON c.slug = l.slug AND c.user_id = ?    *)
(* WHERE l.user_id = ?: pairs <<link, click row id>>, row id 0 for the     *)
(* NULL-extended row of a link without clicks                              *)
JoinedRows(scope) ==
  LET ls == { l \in links : l.user_id = scope }
      matches(l) == { i \in 1..Len(clicks) :
                        clicks[i].slug = l.slug /\ clicks[i].user_id = scope }
  IN  { r \in ls \X (0..Len(clicks)) :
          IF matches(r[1]) = {} THEN r[2] = 0 ELSE r[2] \in matches(r[1]) }

(* revenue computed from the rounded sales figure *)
EstimateRow_RoundedSales(l, count) ==
  [slug |-> l.slug, partner |-> l.partner, campaign |-> l.campaign,
   clicks |-> count,
   cr |-> COALESCE(l.cr, DEFAULT_CR),
   aov |-> COALESCE(l.aov, DEFAULT_AOV),
   est_sales |-> Round2(DecMul(DecInt(count), COALESCE(l.cr, DEFAULT_CR))),
   est_rev |-> Round2(DecMul(Round2(DecMul(DecInt(count), COALESCE(l.cr, DEFAULT_CR))),
                             COALESCE(l.aov, DEFAULT_AOV)))]

EstimateRow(l, count) ==
  [slug |-> l.slug, partner |-> l.partner, campaign |-> l.campaign,
   clicks |-> count,
   cr |-> COALESCE(l.cr, DEFAULT_CR),
   aov |-> COALESCE(l.aov, DEFAULT_AOV),
   est_sales |-> Round2(DecMul(DecInt(count), COALESCE(l.cr, DEFAULT_CR))),
   est_rev |-> Round2(DecMul(DecMul(DecInt(count), COALESCE(l.cr, DEFAULT_CR)),
                             COALESCE(l.aov, DEFAULT_AOV)))]

(* GROUP BY l.slug with COUNT(c.id): one row per slug; the bare columns *)
(* come from some row of the group                                      *)
bySlug(scope) ==
  LET joined == JoinedRows(scope)
      group(g) == { r \in joined : r[1].slug = g }
      counted == { << (CHOOSE r \in group(g) : TRUE)[1],
                      Cardinality({ r \in group(g) : r[2] # 0 }) >>
                   : g \in { r[1].slug : r \in joined } }
  IN  { EstimateRow(p[1], p[2]) : p \in counted }

(* the clicks total of the dashboard: clicks WHERE user_id = ? counted *)
totalClicks(scope) ==
  Cardinality({ i \in 1..Len(clicks) : clicks[i].user_id = scope })

(* GET /admin, multi-tenant draft *)
AdminMulti(user) ==
  /\ variant = "multi"
  /\ resp' = IF user = NoUser
             THEN Response("admin", 302, NoUser, <<>>, 0, <<>>, LoginLocation, {}, 0, NoBody)
             ELSE Response("admin", 200, user, <<>>, 0, <<>>, NoLocation,
                           bySlug(user), totalClicks(user), NoBody)
  /\ UNCHANGED <<variant, links, clicks, events, nextLinkId, hits, pin, pout>>

(* GET /admin, single-tenant draft (requireAdmin: basic auth) *)
AdminSingle(authorized) ==
  /\ variant = "single"
  /\ resp' = IF ~authorized
             THEN Response("admin", 401, NoUser, <<>>, 0, <<>>, NoLocation, {}, 0, NoBody)
             ELSE Response("admin", 200, NoUser, <<>>, 0, <<>>, NoLocation,
                           bySlug(Scope0), totalClicks(Scope0), NoBody)
  /\ UNCHANGED <<variant, links, clicks, events, nextLinkId, hits, pin, pout>>

----
(* Exports and webhook *)

Reverse(s) == [i \in 1..Len(s) |-> s[Len(s) + 1 - i]]

(* SELECT * FROM clicks WHERE user_id = ? ORDER BY id DESC *)
ClickRowsOf(scope) == Reverse(SelectSeq(clicks, LAMBDA c : c.user_id = scope))

(* GET /admin/export/clicks.csv, multi-tenant draft *)
ExportClicksMulti(user) ==
  /\ variant = "multi"
  /\ resp' = IF user = NoUser
             THEN Response("export", 302, NoUser, <<>>, 0, <<>>, LoginLocation, <<>>, 0, NoBody)
             ELSE Response("export", 200, user, <<>>, 0, <<>>, NoLocation,
                           ClickRowsOf(user), 0, NoBody)
  /\ UNCHANGED <<variant, links, clicks, events, nextLinkId, hits, pin, pout>>

(* GET /admin/export/clicks.csv, single-tenant draft *)
ExportClicksSingle(authorized) ==
  /\ variant = "single"
  /\ resp' = IF ~authorized
             THEN Response("export", 401, NoUser, <<>>, 0, <<>>, NoLocation, <<>>, 0, NoBody)
             ELSE Response("export", 200, NoUser, <<>>, 0, <<>>, NoLocation,
                           ClickRowsOf(Scope0), 0, NoBody)
  /\ UNCHANGED <<variant, links, clicks, events, nextLinkId, hits, pin, pout>>

(* POST /webhooks/gumroad (the first registered handler answers): checks the *)
(* secret and logs the payload to the console                                *)
Webhook(configured, secretOk) ==
  /\ variant = "multi"
  /\ resp' = Response("webhook",
                      IF ~configured THEN 500 ELSE IF ~secretOk THEN 401 ELSE 200,
                      NoUser, <<>>, 0, <<>>, NoLocation, {}, 0, NoBody)
  /\ UNCHANGED <<variant, links, clicks, events, nextLinkId, hits, pin, pout>>

----
(* The service *)

Next ==
  \/ \E user \in Users \cup {NoUser}, body \in Bodies : CreateLinkMulti(user, body)
  \/ \E body \in Bodies : CreateLinkSingle(body)
  \/ \E slug \in RequestSlugs, utm \in UtmInputs : RedirectMulti(slug, utm)
  \/ \E slug \in RequestSlugs, utm \in UtmInputs : RedirectSingle(slug, utm)
  \/ \E user \in Users \cup {NoUser} : AdminMulti(user)
  \/ \E authorized \in BOOLEAN : AdminSingle(authorized)
  \/ \E user \in Users \cup {NoUser} : ExportClicksMulti(user)
  \/ \E authorized \in BOOLEAN : ExportClicksSingle(authorized)
  \/ \E configured, secretOk \in BOOLEAN : Webhook(configured, secretOk)

Spec == Init /\ [][Next]_vars

----
(* The service with a failing click insert: better-sqlite3 throws from run() *)
(* (disk full, database locked); the handlers have no try/catch around it,   *)
(* so Express answers 500 and nothing after the insert runs                  *)

RedirectWriteFails(slug) ==
  /\ \A i \in DOMAIN hits : hits[i] < MaxClicks
  /\ \E row \in { l \in links : l.slug = slug } :
       resp' = Response("redirect", 500, NoUser, slug, row.id, <<>>, NoLocation, {}, 0, NoBody)
  /\ hits' = HitsAfterRequest(slug)
  /\ UNCHANGED <<variant, links, clicks, events, nextLinkId, pin, pout>>

NextFault ==
  \/ Next
  \/ \E slug \in RequestSlugs : RedirectWriteFails(slug)

SpecFault == Init /\ [][NextFault]_vars

----
(* The service with a failing event insert: logEvent runs inside the try of *)
(* POST /admin/links, after the link INSERT and outside any transaction;    *)
(* when its INSERT INTO events throws, the catch answers 400                *)

CreateLinkLogFails(user, body) ==
  /\ variant = "multi"
  /\ user # NoUser
  /\ nextLinkId <= MaxLinks
  /\ \E base \in baseSlug(body.partner, body.campaign) :
     \E finalSlug \in ensureUnique(user, base, base, 0) :
       /\ ~UniqueViolation(user, finalSlug)
       /\ links' = links \cup
            { Link(nextLinkId, user, finalSlug, targetUrl(body.target),
                   body.partner, body.campaign,
                   parseConversionRate(body.cr), parseMoney(body.aov)) }
       /\ nextLinkId' = nextLinkId + 1
       /\ hits' = HitsAfterInsert(nextLinkId, {})
       /\ resp' = Response("create", 400, user, finalSlug, nextLinkId, <<>>,
                           NoLocation, {}, 0, body)
  /\ UNCHANGED <<variant, clicks, events, pin, pout>>

NextLogFault ==
  \/ Next
  \/ \E user \in Users, body \in Bodies : CreateLinkLogFails(user, body)

SpecLogFault == Init /\ [][NextLogFault]_vars

----
(* The numeric normalizers alone, applied to every short input *)

ParseAlphabet == {"0", "1", "2", "8", ".", "%", "-"}

Strings(n) == UNION { [1..k -> ParseAlphabet] : k \in 0..n }

(* longer inputs over fewer characters: amounts down to 0.0000001 *)
MoneyAlphabet == {"0", "1", "."}

MoneyStrings(n) == UNION { [1..k -> MoneyAlphabet] : k \in 0..n }

InitParse ==
  /\ variant = "multi"
  /\ links = {}
  /\ clicks = <<>>
  /\ events = <<>>
  /\ nextLinkId = 1
  /\ hits = <<>>
  /\ resp = NoResponse
  /\ pin \in Strings(MaxInputLen) \cup MoneyStrings(MaxMoneyLen)
  /\ pout = NoParse

Parse ==
  /\ ~pout.done
  /\ \E aov \in { parseMoney(pin) } : \E text \in { toString(aov) } :
       pout' = [cr |-> parseConversionRate(pin), aov |-> aov,
                crSingle |-> parseCR(pin), aovSingle |-> parseAOV(pin),
                aovText |-> text, aovAgain |-> parseMoney(text), done |-> TRUE]
  /\ UNCHANGED <<variant, links, clicks, events, nextLinkId, hits, resp, pin>>

NextParse == Parse

SpecParse == InitParse /\ [][NextParse]_vars

----
(* Properties *)

Scopes == Users \cup {Scope0}

(* the number of stored clicks with this slug, whoever they are attributed to *)
ClicksWithSlug(slug) == Cardinality({ i \in 1..Len(clicks) : clicks[i].slug = slug })

(* the number of stored clicks with this slug attributed to this scope *)
ClicksInScope(scope, slug) ==
  Cardinality({ i \in 1..Len(clicks) : clicks[i].slug = slug /\ clicks[i].user_id = scope })

(* C1: no two stored links of the same scope (the owning account; the whole *)
(* system in the single-tenant draft) have the same slug.                   *)
C1_SlugUniquePerScope ==
  \A l1, l2 \in links :
    (l1.user_id = l2.user_id /\ l1.slug = l2.slug) => l1.id = l2.id

(* two requests of one account with the same partner and campaign were both stored *)
C1_Witness ==
  \E l1, l2 \in links :
    /\ l1.id # l2.id
    /\ l1.user_id = l2.user_id
    /\ l1.partner # <<>>
    /\ l1.partner = l2.partner
    /\ l1.campaign = l2.campaign

(* C2: of the creation requests that derive the same slug in one scope, one  *)
(* succeeds with that slug; a later one is stored under a different slug or  *)
(* fails with 400, and never succeeds by taking over the stored record: a    *)
(* successful creation leaves every stored link in place and its slug is new *)
(* in its scope.                                                             *)
C2_NoTakeover ==
  [][ (resp'.kind = "create" /\ resp'.status = 302 /\ resp'.link # 0)
      => /\ links \subseteq links'
         /\ \A l \in links :
              l.user_id = (IF variant = "multi" THEN resp'.user ELSE Scope0)
                => l.slug # resp'.slug ]_vars

(* C3: every resolved GET /r/:slug adds one click to the count reported to   *)
(* the owner, so a stored link's owner is shown exactly as many clicks for   *)
(* its slug as redirects were issued to that slug since the link was stored. *)
C3_ClicksEqualRedirects ==
  \A l \in links :
    \E row \in bySlug(l.user_id) : row.slug = l.slug /\ row.clicks = hits[l.id]

(* C4: GET /r/:slug for a slug no stored link has answers 404 and changes   *)
(* neither table nor any aggregator row.                                    *)
C4_NotFoundNoEffect ==
  [][ (resp'.kind = "redirect" /\ ~\E l \in links : l.slug = resp'.slug)
      => /\ resp'.status = 404
         /\ clicks' = clicks
         /\ links' = links
         /\ \A scope \in Scopes :
              /\ bySlug(scope)' = bySlug(scope)
              /\ totalClicks(scope)' = totalClicks(scope) ]_vars

(* an unknown slug was answered 404 while links and clicks were stored *)
C4_Witness ==
  /\ resp.kind = "redirect"
  /\ resp.status = 404
  /\ links # {}
  /\ clicks # <<>>

(* C5: a request whose slug resolves to a link with a well-formed target ends *)
(* in a redirect to it, also when the click insert failed.                    *)
C5_RedirectDespiteWriteFailure ==
  (/\ resp.kind = "redirect"
   /\ \E l \in links : l.id = resp.link /\ IsValidURL(l.target))
  => resp.status = 302

(* C6: every request whose slug resolves ends in a redirect; a stored target *)
(* that is no well-formed absolute URL is the location as it is stored.      *)
C6_VerbatimFallback ==
  \A l \in links :
    (resp.kind = "redirect" /\ resp.link = l.id)
    => /\ resp.status = 302
       /\ resp.location.target = l.target

(* C7: a creation request of a signed-in account whose target is missing or *)
(* blank is answered 400 and stores no link.                                *)
C7_EmptyTargetRejected ==
  [][ (/\ resp'.kind = "create"
       /\ variant = "multi" => resp'.user # NoUser
       /\ trim(resp'.req.target) = <<>>)
      => (resp'.status = 400 /\ links' = links) ]_vars

ExampleLink ==
  Link(1, Scope0, Str_acme, <<>>, <<>>, <<>>, Dec(1, 2), DecInt(50))

ReadScope == IF variant = "multi" THEN resp.user ELSE Scope0

(* C8 as stated: at a read every link of the scope has a row with clicks =  *)
(* the stored clicks with its slug, sales = clicks x rate and revenue =     *)
(* sales x order value.                                                     *)
C8_ExactEstimates ==
  (resp.kind = "admin" /\ resp.status = 200)
  => \A l \in { x \in links : x.user_id = ReadScope } :
       \E row \in resp.rows :
         /\ row.slug = l.slug
         /\ row.clicks = ClicksWithSlug(l.slug)
         /\ row.est_sales = DecMul(DecInt(row.clicks), COALESCE(l.cr, DEFAULT_CR))
         /\ row.est_rev = DecMul(row.est_sales, COALESCE(l.aov, DEFAULT_AOV))

(* C8 amended: clicks = the stored clicks of the scope with the link's slug, *)
(* sales = clicks x rate rounded to two decimals, revenue = clicks x rate x  *)
(* order value rounded to two decimals; one row per link of the scope; rate  *)
(* 0.01, order value 50 and 10 clicks give 0.10 and 5.00.                    *)
C8_RoundedEstimates ==
  /\ (resp.kind = "admin" /\ resp.status = 200)
     => /\ Cardinality(resp.rows) = Cardinality({ x \in links : x.user_id = ReadScope })
        /\ \A l \in { x \in links : x.user_id = ReadScope } :
             \E row \in resp.rows :
               /\ row.slug = l.slug
               /\ row.clicks = ClicksInScope(ReadScope, l.slug)
               /\ row.est_sales =
                    Round2(DecMul(DecInt(row.clicks), COALESCE(l.cr, DEFAULT_CR)))
               /\ row.est_rev =
                    Round2(DecMul(DecMul(DecInt(row.clicks), COALESCE(l.cr, DEFAULT_CR)),
                                  COALESCE(l.aov, DEFAULT_AOV)))
  /\ EstimateRow(ExampleLink, 10).est_sales = Dec(10, 2)
  /\ EstimateRow(ExampleLink, 10).est_rev = Dec(500, 2)

(* a read returned a row with clicks whose sales figure was changed by rounding *)
C8_Witness ==
  /\ resp.kind = "admin"
  /\ resp.status = 200
  /\ \E row \in resp.rows :
       /\ row.clicks > 0
       /\ row.est_sales # DecMul(DecInt(row.clicks), row.cr)
       /\ row.est_rev # DecMul(row.est_sales, row.aov)

(* C9: every stored conversion rate is a fraction in (0, 1]. *)
C9_RateIsFraction ==
  \A l \in links :
    l.cr # NULL => (IsNum(l.cr) /\ DecLT(DecInt(0), l.cr) /\ DecLE(l.cr, DecInt(1)))

(* the magnitude rule, on the number left after stripping *)
MagnitudeRule(input, out) ==
  LET n == parseFloat(cleaned(input))
  IN  /\ (IsNum(n) /\ DecLT(DecInt(1), n)) => out = DecDiv100(n)
      /\ (IsNum(n) /\ DecLT(Dec(2, 1), n) /\ DecLE(n, DecInt(1))) => out = DecDiv100(n)
      /\ (IsNum(n) /\ DecLT(DecInt(0), n) /\ DecLE(n, Dec(2, 1))) => out = n
      /\ (input = <<>> \/ ~IsNum(n)) => out = DEFAULT_CR

DenotesNonPositive(input) ==
  input # <<>> /\ IsNum(Number(input)) /\ Number(input).m <= 0

(* C11: an input that denotes a negative or non-positive number ("-45",   *)
(* "-8", "0") is never kept: parseMoney returns the default average order *)
(* value for it and parseConversionRate the default conversion rate.       *)
C11_NonPositiveGivesDefault ==
  (pout.done /\ DenotesNonPositive(pin))
  => (pout.aov = DEFAULT_AOV /\ pout.cr = DEFAULT_CR)

(* C12: parseMoney is stable under re-parsing: for every input x,          *)
(* parseMoney(parseMoney(x).toString()) equals parseMoney(x).               *)
C12_ParseMoneyIdempotent ==
  pout.done => pout.aovAgain = pout.aov

(* C13: every stored link's target starts with http:// or https://; a      *)
(* submitted target without a scheme is stored with https:// prepended.    *)
C13_TargetHasScheme ==
  /\ \A l \in links : startsWith(l.target, Str_http) \/ startsWith(l.target, Str_https)
  /\ \A l \in links :
       (resp.kind = "create" /\ resp.link = l.id /\ trim(resp.req.target) # <<>>
        /\ ~HasHttpScheme(trim(resp.req.target)))
       => l.target = Str_https \o trim(resp.req.target)

(* C14: the location of a redirect is the stored target with the clickId of *)
(* the click written by the same request as a query parameter and with each *)
(* utm_source, utm_medium, utm_campaign of the request forwarded unchanged. *)
C14_LocationForwardsUtm ==
  (resp.kind = "redirect" /\ resp.status = 302)
  => /\ \E l \in links : l.id = resp.link /\ resp.location.target = l.target
     /\ clicks # <<>>
     /\ clicks[Len(clicks)].click_id = resp.click
     /\ \E i \in DOMAIN resp.location.params : resp.location.params[i][2] = resp.click
     /\ resp.req.source # <<>>
          => Param("utm_source", resp.req.source) \in Range(resp.location.params)
     /\ resp.req.medium # <<>>
          => Param("utm_medium", resp.req.medium) \in Range(resp.location.params)
     /\ resp.req.campaign # <<>>
          => Param("utm_campaign", resp.req.campaign) \in Range(resp.location.params)

(* C15: all click records have pairwise distinct clickIds. *)
C15_ClickIdsDistinct ==
  \A i, j \in DOMAIN clicks : clicks[i].click_id = clicks[j].click_id => i = j

(* C16: no operation updates or deletes a click record: the click log only *)
(* grows by appends and every record keeps its slug, clickId and owner.    *)
C16_ClicksAppendOnly ==
  [][ /\ Len(clicks') >= Len(clicks)
      /\ SubSeq(clicks', 1, Len(clicks)) = clicks ]_vars

(* a link was stored under a slug that two stored clicks carry *)
C16_Witness ==
  /\ resp.kind = "create"
  /\ resp.status = 302
  /\ resp.link # 0
  /\ Len(clicks) = 2
  /\ \A i \in DOMAIN clicks : clicks[i].slug = resp.slug

(* C17: no request modifies or removes a stored link: a link record once   *)
(* stored stays stored with the same id, slug, target, rate and order value. *)
C17_LinksNeverRemoved ==
  [][ \A l \in links : l \in links' ]_vars

(* C18: slug uniqueness resolution ends after a bounded number of existence *)
(* checks (ensureUnique makes at most MaxAttempts + 1) and, when the bound   *)
(* is exhausted, does not go on with a candidate that exists: a creation     *)
(* request of a signed-in account reaches the INSERT with a slug that is     *)
(* free for the account and is answered 302.                                 *)
C18_NeverProceedsWithExistingSlug ==
  [][ (resp'.kind = "create" /\ variant = "multi" /\ resp'.user # NoUser)
      => (resp'.status = 302 /\ ~SlugExists(resp'.user, resp'.slug)) ]_vars

(* the normalization of the claim: lowercase, & becomes and, runs outside *)
(* [a-z0-9] become one hyphen, hyphens at the ends removed                *)
RECURSIVE ReplaceAmp(_)
ReplaceAmp(s) ==
  IF s = <<>> THEN <<>>
  ELSE (IF Head(s) = "&" THEN <<"a", "n", "d">> ELSE <<Head(s)>>) \o ReplaceAmp(Tail(s))

normalize(t) ==
  StripTrailingHyphens(StripLeadingHyphens(HyphenateRuns(ReplaceAmp(toLowerCase(t)), FALSE)))

(* slug is base, or base with a hyphen and a random suffix *)
IsBaseOrSuffixed(slug, base) ==
  \/ slug = base
  \/ Len(slug) = Len(base) + 1 + SuffixLen /\ startsWith(slug, base \o <<"-">>)

(* C19: the base slug of a creation is normalize(partner-campaign) when a  *)
(* partner is given, normalize(campaign) when only a campaign is given and *)
(* link-<random> otherwise; the stored slug is it, or it with a suffix.    *)
C19_BaseSlugNormalized ==
  (resp.kind = "create" /\ resp.status = 302 /\ resp.link # 0 /\ variant = "multi")
  => LET b == resp.req
     IN  IF trim(b.partner) # <<>>
         THEN IsBaseOrSuffixed(resp.slug, normalize(b.partner \o <<"-">> \o b.campaign))
         ELSE IF b.campaign # <<>>
         THEN IsBaseOrSuffixed(resp.slug, normalize(b.campaign))
         ELSE startsWith(resp.slug, Str_link \o <<"-">>)

(* C20: every stored slug is non-empty, made of [a-z0-9-] only and neither *)
(* starts nor ends with a hyphen.                                          *)
C20_SlugUrlSafe ==
  \A l \in links :
    /\ l.slug # <<>>
    /\ \A i \in DOMAIN l.slug : IsSafeSlugChar(l.slug[i])
    /\ Head(l.slug) # "-"
    /\ l.slug[Len(l.slug)] # "-"

(* C21: the response of POST /admin/links reflects the stored outcome: 302 *)
(* means exactly one new link record was stored by the request, 400 (slug  *)
(* conflict or any other error in the handler) means the links table is    *)
(* the same as before the request.                                         *)
C21_ResponseReflectsStore ==
  [][ (resp'.kind = "create" /\ (variant = "multi" => resp'.user # NoUser))
      => /\ resp'.status \in {302, 400}
         /\ resp'.status = 302 => Cardinality(links' \ links) = 1
         /\ resp'.status = 400 => links' = links ]_vars

(* C22: in the multi-tenant draft a slug names at most one link across all *)
(* accounts, so GET /r/:slug resolves to a single link and its click goes  *)
(* to the owner of the link the visitor followed.                          *)
C22_SlugUniqueAcrossAccounts ==
  variant = "multi" =>
    \A l1, l2 \in links : l1.slug = l2.slug => l1.id = l2.id

(* the sum of the click counts of a set of estimate rows *)
RECURSIVE SumClicks(_)
SumClicks(rows) ==
  IF rows = {} THEN 0
  ELSE LET row == CHOOSE r \in rows : TRUE
       IN  row.clicks + SumClicks(rows \ {row})

(* C23: each click record's (owner, slug) pair matches a stored link of    *)
(* that owner, so for every account the dashboard's total click count is   *)
(* the sum of the click counts of the account's estimate rows.             *)
C23_ClicksMatchLinks ==
  /\ \A i \in DOMAIN clicks :
       \E l \in links : l.user_id = clicks[i].user_id /\ l.slug = clicks[i].slug
  /\ \A scope \in Scopes : totalClicks(scope) = SumClicks(bySlug(scope))
  /\ (resp.kind = "admin" /\ resp.status = 200) => resp.total = SumClicks(resp.rows)

(* a dashboard read showed two links with one click each and a total of two *)
C23_Witness ==
  /\ resp.kind = "admin"
  /\ resp.status = 200
  /\ resp.total = 2
  /\ Cardinality(resp.rows) = 2
  /\ \A row \in resp.rows : row.clicks = 1

====
